---- MODULE Spec2Model ----
(***************************************************************************)
(* Model of src/mysql_helper_functions.py: the generic MySQL data-access   *)
(* helpers.  Every helper is one action; the calls it makes on the         *)
(* connection (cursor, execute, commit, rollback, close) are recorded in   *)
(* `log`, the statements it got committed in `committed`, and the way it   *)
(* left (a returned value or an escaping exception) in `ret`.              *)
(*                                                                         *)
(* Statement text is a sequence of tokens; a placeholder is the token      *)
(* "%s", wherever it occurs in the text, which is how the connector finds  *)
(* placeholders.  Python objects are records [t |-> type, v |-> payload].  *)
(***************************************************************************)
EXTENDS Integers, Sequences, FiniteSets, TLC

VARIABLES pc, conn, call, log, committed, ret

vars == <<pc, conn, call, log, committed, ret>>

(* ---------------------------- bounds ----------------------------------- *)
MaxLen == 2
MaxRows == 2

(* ------------------------- python objects ------------------------------ *)
PyInt(s) == [t |-> "int", v |-> s]
PyStr(s) == [t |-> "str", v |-> s]
PyTuple(items) == [t |-> "tuple", v |-> items]
PyList(items) == [t |-> "list", v |-> items]
None == [t |-> "NoneType", v |-> <<>>]

Scalars == {PyInt("1"), PyStr("%s")}
Cols == {"id", "a"}
Tables == {"t"}

SeqsUpTo(S, n) == UNION {[1..k -> S] : k \in 0..n}

ColLists == SeqsUpTo(Cols, MaxLen)
ValueLists == SeqsUpTo(Scalars, MaxLen)
FilterValueObjs == {PyTuple(s) : s \in ValueLists} \cup {PyList(s) : s \in ValueLists} \cup Scalars

DfColumnChoices == {<<>>, <<"id">>, <<"id", "a">>}
DataFrames == UNION {{[columns |-> cs, rows |-> rs] : rs \in SeqsUpTo([1..Len(cs) -> Scalars], MaxRows)} : cs \in DfColumnChoices}

DfEmpty(df) == Len(df.rows) = 0 \/ Len(df.columns) = 0

IndexOf(seq, x) == CHOOSE i \in DOMAIN seq : seq[i] = x

Range(seq) == {seq[i] : i \in DOMAIN seq}

Min(a, b) == IF a < b THEN a ELSE b

(* --------------------------- text building ----------------------------- *)
RECURSIVE Join(_, _)
Join(parts, sep) == IF Len(parts) = 0 THEN <<>> ELSE IF Len(parts) = 1 THEN parts[1] ELSE parts[1] \o sep \o Join(Tail(parts), sep)

Repr(x) == IF x.t = "str" THEN <<"'", x.v, "'">> ELSE IF x.t = "int" THEN <<x.v>> ELSE <<"<object>">>

Str(x) == IF x.t \in {"str", "int"} THEN <<x.v>> ELSE <<"<object>">>

CountPlaceholders(text) == Cardinality({i \in DOMAIN text : text[i] = "%s"})

IsSequenceObj(p) == p.t \in {"tuple", "list"}

ParamCount(p) == IF IsSequenceObj(p) THEN Len(p.v) ELSE 0

where_clause(column_filters) == Join([i \in DOMAIN column_filters |-> <<column_filters[i], "=", "%s">>], <<"AND">>)

set_clause(update_columns, update_values) == Join([i \in 1..Min(Len(update_columns), Len(update_values)) |-> <<update_columns[i], "=">> \o Repr(update_values[i])], <<",">>)

coerce_filter_values(filter_values) == IF filter_values.t # "tuple" THEN PyTuple(<<filter_values>>) ELSE filter_values

select_all_query(table_name) == <<"SELECT", "*", "FROM", table_name>>

describe_query(table_name) == <<"DESCRIBE", table_name, ";">>

insert_query(columns, table_name) == <<"INSERT", "INTO", table_name, "(">> \o Join([i \in DOMAIN columns |-> <<columns[i]>>], <<",">>) \o <<")", "VALUES", "(">> \o Join([i \in DOMAIN columns |-> <<"%s">>], <<",">>) \o <<")">>

filter_query(filter_list, table_name, column_filter) == <<"SELECT", "*", "FROM", table_name, "WHERE", column_filter, "IN", "(">> \o Join([i \in DOMAIN filter_list |-> <<"'">> \o Str(filter_list[i]) \o <<"'">>], <<",">>) \o <<")", ";">>

multi_filter_query(column_filters, table_name) == <<"SELECT", "*", "FROM", table_name, "WHERE">> \o where_clause(column_filters) \o <<";">>

update_query(column_filters, update_columns, update_values, table_name) == <<"UPDATE", table_name, "SET">> \o set_clause(update_columns, update_values) \o <<"WHERE">> \o where_clause(column_filters) \o <<";">>

(* ------------------- the connection and its cursor --------------------- *)
(* A context c is [conn, log, pending, committed]: the connection's state, *)
(* the calls made on it, the statements of the open transaction and the    *)
(* statements committed.                                                   *)
Ev(ev, ok, text, params) == [ev |-> ev, ok |-> ok, text |-> text, params |-> params]

Ctx(cn) == [conn |-> cn, log |-> <<>>, pending |-> <<>>, committed |-> <<>>]

CursorOk(c) == c.conn = "open"

conn_cursor(c) == [c EXCEPT !.log = Append(@, Ev("cursor", CursorOk(c), <<>>, None))]

ClientOk(text, params) == params.t = "NoneType" \/ (IsSequenceObj(params) /\ CountPlaceholders(text) = Len(params.v))

ExecOk(c, text, params, accept) == c.conn = "open" /\ accept /\ ClientOk(text, params)

IsMutation(text) == Len(text) > 0 /\ text[1] \in {"INSERT", "UPDATE"}

cursor_execute(c, text, params, accept) == [c EXCEPT !.log = Append(@, Ev("execute", ExecOk(c, text, params, accept), text, params)), !.pending = IF ExecOk(c, text, params, accept) /\ IsMutation(text) THEN Append(@, [text |-> text, params |-> params]) ELSE @]

CommitOk(c, commitOk) == c.conn = "open" /\ commitOk

conn_commit(c, commitOk) == [c EXCEPT !.log = Append(@, Ev("commit", CommitOk(c, commitOk), <<>>, None)), !.committed = IF CommitOk(c, commitOk) THEN @ \o c.pending ELSE @, !.pending = IF CommitOk(c, commitOk) THEN <<>> ELSE @]

conn_rollback(c) == [c EXCEPT !.log = Append(@, Ev("rollback", c.conn = "open", <<>>, None)), !.pending = <<>>]

cursor_close(c) == [c EXCEPT !.log = Append(@, Ev("cursor_close", TRUE, <<>>, None))]

conn_close(c) == [c EXCEPT !.log = Append(@, Ev("conn_close", TRUE, <<>>, None)), !.conn = "closed", !.pending = <<>>]

Return(v) == [kind |-> "return", value |-> v]

Raise(e) == [kind |-> "raise", value |-> e]

Out(c, r) == [c |-> c, ret |-> r]

(* ------------------------------ helpers -------------------------------- *)
connect_to_db(ok) == IF ok THEN Out(Ctx("open"), Return("conn")) ELSE Out(Ctx("none"), Return("None"))

close_connection(c) == IF c.conn = "open" THEN Out(conn_close(c), Return("None")) ELSE Out(c, Return("None"))

get_all_data_from_table(c, table_name, resp) ==
  LET query == select_all_query(table_name)
      c1 == conn_cursor(c)
      c2 == cursor_execute(c1, query, None, resp # "error")
  IN  IF ~CursorOk(c) THEN Out(conn_rollback(c1), Raise("UnboundLocalError"))
      ELSE IF ~ExecOk(c1, query, None, resp # "error") THEN Out(cursor_close(conn_rollback(c2)), Return("None"))
      ELSE Out(cursor_close(c2), Return(IF resp = "rows" THEN "DataFrame" ELSE "EmptyDataFrame"))

(* insert_loop as it would be if a failing row ended the loop.             *)
RECURSIVE insert_loop_abort(_, _, _, _, _)
insert_loop_abort(c, query, values, i, reject) ==
  IF i > Len(values) THEN c
  ELSE IF ~ExecOk(c, query, values[i], i \notin reject) THEN cursor_execute(c, query, values[i], i \notin reject)
  ELSE insert_loop_abort(cursor_execute(c, query, values[i], i \notin reject), query, values, i + 1, reject)

RECURSIVE insert_loop(_, _, _, _, _)
insert_loop(c, query, values, i, reject) ==
  IF i > Len(values) THEN c
  ELSE insert_loop(cursor_execute(c, query, values[i], i \notin reject), query, values, i + 1, reject)

insert_into_table(c, data_df, table_name, reject, commitOk) ==
  LET query == insert_query(data_df.columns, table_name)
      values == [i \in DOMAIN data_df.rows |-> PyTuple(data_df.rows[i])]
      c1 == conn_cursor(c)
      c2 == insert_loop(c1, query, values, 1, reject)
      c3 == conn_commit(c2, commitOk)
  IN  IF ~CursorOk(c) THEN Out(conn_rollback(c1), Raise("UnboundLocalError"))
      ELSE IF ~CommitOk(c2, commitOk) THEN Out(cursor_close(conn_rollback(c3)), Return("1"))
      ELSE Out(cursor_close(c3), Return("1"))

get_table_columns(c, table_name, accept) ==
  LET query == describe_query(table_name)
      c1 == conn_cursor(c)
      c2 == cursor_execute(c1, query, None, accept)
  IN  IF ~CursorOk(c) THEN Out(conn_rollback(c1), Raise("UnboundLocalError"))
      ELSE IF ~ExecOk(c1, query, None, accept) THEN Out(cursor_close(conn_rollback(c2)), Raise("UnboundLocalError"))
      ELSE Out(cursor_close(c2), Return("columns"))

(* filtered_read as it would be if the early return on an empty result    *)
(* left before the connection is closed.                                   *)
filtered_read_early_return(c, query, params, table_name, resp, describeOk) ==
  LET c1 == conn_cursor(c)
      c2 == cursor_execute(c1, query, params, resp # "error")
      sub == get_table_columns(c2, table_name, describeOk)
  IN  IF ~CursorOk(c) THEN Out(conn_rollback(c1), Raise("UnboundLocalError"))
      ELSE IF ~ExecOk(c1, query, params, resp # "error") THEN Out(conn_close(cursor_close(conn_rollback(c2))), Raise("UnboundLocalError"))
      ELSE IF resp = "empty" THEN Out(c2, Return("EmptyDataFrame"))
      ELSE IF sub.ret.kind = "raise" THEN Out(conn_close(cursor_close(sub.c)), sub.ret)
      ELSE Out(conn_close(cursor_close(sub.c)), Return("DataFrame"))

(* The part the two filtered reads share: lines 138-154 and 174-191 are    *)
(* the same but for the statement and its parameters.                      *)
filtered_read(c, query, params, table_name, resp, describeOk) ==
  LET c1 == conn_cursor(c)
      c2 == cursor_execute(c1, query, params, resp # "error")
      sub == get_table_columns(c2, table_name, describeOk)
  IN  IF ~CursorOk(c) THEN Out(conn_rollback(c1), Raise("UnboundLocalError"))
      ELSE IF ~ExecOk(c1, query, params, resp # "error") THEN Out(conn_close(cursor_close(conn_rollback(c2))), Raise("UnboundLocalError"))
      ELSE IF resp = "empty" THEN Out(conn_close(cursor_close(c2)), Return("EmptyDataFrame"))
      ELSE IF sub.ret.kind = "raise" THEN Out(conn_close(cursor_close(sub.c)), sub.ret)
      ELSE Out(conn_close(cursor_close(sub.c)), Return("DataFrame"))

get_all_with_filter(c, filter_list, table_name, column_filter, resp, describeOk) ==
  filtered_read(c, filter_query(filter_list, table_name, column_filter), None, table_name, resp, describeOk)

get_all_with_multiple_filters(c, column_filters, filter_values, table_name, resp, describeOk) ==
  filtered_read(c, multi_filter_query(column_filters, table_name), filter_values, table_name, resp, describeOk)

(* The update as it would be if it reported a rolled-back statement as 0. *)
update_reporting_failure(c, column_filters, filter_values, update_columns, update_values, table_name, accept, commitOk) ==
  LET params == coerce_filter_values(filter_values)
      query == update_query(column_filters, update_columns, update_values, table_name)
      c1 == conn_cursor(c)
      c2 == cursor_execute(c1, query, params, accept)
      c3 == conn_commit(c2, commitOk)
  IN  IF ~CursorOk(c) THEN Out(conn_rollback(c1), Raise("UnboundLocalError"))
      ELSE IF ~ExecOk(c1, query, params, accept) THEN Out(conn_close(cursor_close(conn_rollback(c2))), Return("0"))
      ELSE IF ~CommitOk(c2, commitOk) THEN Out(conn_close(cursor_close(conn_rollback(c3))), Return("0"))
      ELSE Out(conn_close(cursor_close(c3)), Return("1"))

update_multiple_columns_by_multi_filter(c, column_filters, filter_values, update_columns, update_values, table_name, accept, commitOk) ==
  LET params == coerce_filter_values(filter_values)
      query == update_query(column_filters, update_columns, update_values, table_name)
      c1 == conn_cursor(c)
      c2 == cursor_execute(c1, query, params, accept)
      c3 == conn_commit(c2, commitOk)
  IN  IF ~CursorOk(c) THEN Out(conn_rollback(c1), Raise("UnboundLocalError"))
      ELSE IF ~ExecOk(c1, query, params, accept) THEN Out(conn_close(cursor_close(conn_rollback(c2))), Return("1"))
      ELSE IF ~CommitOk(c2, commitOk) THEN Out(conn_close(cursor_close(conn_rollback(c3))), Return("1"))
      ELSE Out(conn_close(cursor_close(c3)), Return("1"))

Truthy(v) == v \notin {"0", "False", "None"}

(* The loop as it would be if the filter column were left out of the      *)
(* columns and values handed to the update.                                *)
OtherIdx(columns, filter_col) == SelectSeq([j \in DOMAIN columns |-> j], LAMBDA j : columns[j] # filter_col)

RECURSIVE update_rows_loop_other_columns(_, _, _, _, _, _, _)
update_rows_loop_other_columns(c, new_df, filter_col, table_name, i, reject, commitFail) ==
  IF i > Len(new_df.rows) THEN Out(c, Return("True"))
  ELSE IF filter_col \notin Range(new_df.columns) THEN Out(c, Raise("KeyError"))
  ELSE LET row == new_df.rows[i]
           idx == OtherIdx(new_df.columns, filter_col)
           r == update_multiple_columns_by_multi_filter(c, <<filter_col>>, row[IndexOf(new_df.columns, filter_col)], [j \in DOMAIN idx |-> new_df.columns[idx[j]]], [j \in DOMAIN idx |-> row[idx[j]]], table_name, i \notin reject, i \notin commitFail)
       IN  IF r.ret.kind = "raise" THEN r
           ELSE IF ~Truthy(r.ret.value) THEN Out(r.c, Return("False"))
           ELSE update_rows_loop_other_columns(r.c, new_df, filter_col, table_name, i + 1, reject, commitFail)

RECURSIVE update_rows_loop(_, _, _, _, _, _, _)
update_rows_loop(c, new_df, filter_col, table_name, i, reject, commitFail) ==
  IF i > Len(new_df.rows) THEN Out(c, Return("True"))
  ELSE IF filter_col \notin Range(new_df.columns) THEN Out(c, Raise("KeyError"))
  ELSE LET row == new_df.rows[i]
           r == update_multiple_columns_by_multi_filter(c, <<filter_col>>, row[IndexOf(new_df.columns, filter_col)], new_df.columns, row, table_name, i \notin reject, i \notin commitFail)
       IN  IF r.ret.kind = "raise" THEN r
           ELSE IF ~Truthy(r.ret.value) THEN Out(r.c, Return("False"))
           ELSE update_rows_loop(r.c, new_df, filter_col, table_name, i + 1, reject, commitFail)

(* update_rows_in_database as it would be without its guard.              *)
update_rows_unguarded(c, new_df, filter_col, table_name, reject, commitFail) ==
  update_rows_loop(c, new_df, filter_col, table_name, 1, reject, commitFail)

update_rows_in_database(c, new_df, filter_col, table_name, reject, commitFail) ==
  IF DfEmpty(new_df) THEN Out(c, Return("False"))
  ELSE update_rows_loop(c, new_df, filter_col, table_name, 1, reject, commitFail)

(* ------------------------------ the system ----------------------------- *)
Init ==
  /\ pc = "idle"
  /\ conn = "none"
  /\ call = [op |-> "none"]
  /\ log = <<>>
  /\ committed = <<>>
  /\ ret = Return("None")

Finish(c, out) ==
  /\ pc' = "done"
  /\ call' = c
  /\ conn' = out.c.conn
  /\ log' = out.c.log
  /\ committed' = out.c.committed
  /\ ret' = out.ret

Connect ==
  /\ pc = "idle"
  /\ \E ok \in BOOLEAN :
       Finish([op |-> "connect_to_db", conn0 |-> conn, ok |-> ok], connect_to_db(ok))

CloseConnection ==
  /\ pc = "idle" /\ conn # "none"
  /\ Finish([op |-> "close_connection", conn0 |-> conn], close_connection(Ctx(conn)))

GetAllDataFromTable ==
  /\ pc = "idle" /\ conn # "none"
  /\ \E table_name \in Tables, resp \in {"error", "empty", "rows"} :
       Finish([op |-> "get_all_data_from_table", conn0 |-> conn, table_name |-> table_name, resp |-> resp],
              get_all_data_from_table(Ctx(conn), table_name, resp))

InsertIntoTable ==
  /\ pc = "idle" /\ conn # "none"
  /\ \E data_df \in DataFrames, table_name \in Tables, commitOk \in BOOLEAN :
       \E reject \in SUBSET (1..Len(data_df.rows)) :
         Finish([op |-> "insert_into_table", conn0 |-> conn, data_df |-> data_df, table_name |-> table_name, reject |-> reject, commitOk |-> commitOk],
                insert_into_table(Ctx(conn), data_df, table_name, reject, commitOk))

GetTableColumns ==
  /\ pc = "idle" /\ conn # "none"
  /\ \E table_name \in Tables, accept \in BOOLEAN :
       Finish([op |-> "get_table_columns", conn0 |-> conn, table_name |-> table_name, accept |-> accept],
              get_table_columns(Ctx(conn), table_name, accept))

GetAllWithFilter ==
  /\ pc = "idle" /\ conn # "none"
  /\ \E filter_list \in ValueLists, table_name \in Tables, column_filter \in Cols, resp \in {"error", "empty", "rows"}, describeOk \in BOOLEAN :
       Finish([op |-> "get_all_with_filter", conn0 |-> conn, filter_list |-> filter_list, table_name |-> table_name, column_filter |-> column_filter, resp |-> resp, describeOk |-> describeOk],
              get_all_with_filter(Ctx(conn), filter_list, table_name, column_filter, resp, describeOk))

GetAllWithMultipleFilters ==
  /\ pc = "idle" /\ conn # "none"
  /\ \E column_filters \in ColLists, filter_values \in FilterValueObjs, table_name \in Tables, resp \in {"error", "empty", "rows"}, describeOk \in BOOLEAN :
       Finish([op |-> "get_all_with_multiple_filters", conn0 |-> conn, column_filters |-> column_filters, filter_values |-> filter_values, table_name |-> table_name, resp |-> resp, describeOk |-> describeOk],
              get_all_with_multiple_filters(Ctx(conn), column_filters, filter_values, table_name, resp, describeOk))

UpdateMultipleColumnsByMultiFilter ==
  /\ pc = "idle" /\ conn # "none"
  /\ \E column_filters \in ColLists, filter_values \in FilterValueObjs, update_columns \in ColLists, update_values \in ValueLists, table_name \in Tables, accept \in BOOLEAN, commitOk \in BOOLEAN :
       Finish([op |-> "update_multiple_columns_by_multi_filter", conn0 |-> conn, column_filters |-> column_filters, filter_values |-> filter_values, update_columns |-> update_columns, update_values |-> update_values, table_name |-> table_name, accept |-> accept, commitOk |-> commitOk],
              update_multiple_columns_by_multi_filter(Ctx(conn), column_filters, filter_values, update_columns, update_values, table_name, accept, commitOk))

UpdateRowsInDatabase ==
  /\ pc = "idle" /\ conn # "none"
  /\ \E new_df \in DataFrames, filter_col \in Cols, table_name \in Tables :
       \E reject \in SUBSET (1..Len(new_df.rows)), commitFail \in SUBSET (1..Len(new_df.rows)) :
         Finish([op |-> "update_rows_in_database", conn0 |-> conn, new_df |-> new_df, filter_col |-> filter_col, table_name |-> table_name, reject |-> reject, commitFail |-> commitFail],
                update_rows_in_database(Ctx(conn), new_df, filter_col, table_name, reject, commitFail))

(* The caller takes the result and goes on to its next call with the      *)
(* connection as the helper left it.                                       *)
CallerContinues ==
  /\ pc = "done"
  /\ pc' = "idle"
  /\ call' = [op |-> "none"]
  /\ log' = <<>>
  /\ committed' = <<>>
  /\ ret' = Return("None")
  /\ UNCHANGED conn

Next ==
  \/ Connect
  \/ CloseConnection
  \/ GetAllDataFromTable
  \/ InsertIntoTable
  \/ GetTableColumns
  \/ GetAllWithFilter
  \/ GetAllWithMultipleFilters
  \/ UpdateMultipleColumnsByMultiFilter
  \/ UpdateRowsInDatabase
  \/ CallerContinues

Spec == Init /\ [][Next]_vars

TypeOK ==
  /\ pc \in {"idle", "done"}
  /\ conn \in {"none", "open", "closed"}
  /\ ret.kind \in {"return", "raise"}

(* ------------------- what the properties speak about ------------------- *)
Done(opname) == pc = "done" /\ call.op = opname

IsExecute(e) == e.ev = "execute"

Executes == SelectSeq(log, IsExecute)

Events(name) == {i \in DOMAIN log : log[i].ev = name}

HasPlaceholderValue(row) == \E j \in DOMAIN row : row[j].v = "%s"

(* Row k's update is one the client and the database accept.              *)
RowSucceeds(k) == k \notin call.reject /\ k \notin call.commitFail /\ ~HasPlaceholderValue(call.new_df.rows[k])

UpdateRowsRuns == Done("update_rows_in_database") /\ call.conn0 = "open" /\ Len(call.new_df.rows) > 0 /\ Len(call.new_df.columns) > 0 /\ call.filter_col \in Range(call.new_df.columns)

FirstFailing == CHOOSE k \in DOMAIN call.new_df.rows : ~RowSucceeds(k) /\ \A j \in 1..(k - 1) : RowSucceeds(j)

WherePos(text) == CHOOSE i \in DOMAIN text : text[i] = "WHERE" /\ \A j \in 1..(i - 1) : text[j] # "WHERE"

(* The columns assigned between SET and WHERE, in the order of the text.  *)
SetColumnsOf(text) == LET idx == SelectSeq([i \in 1..(WherePos(text) - 2) |-> i], LAMBDA i : i > 3 /\ text[i + 1] = "=") IN [j \in DOMAIN idx |-> text[idx[j]]]

(* The columns compared after WHERE, in the order of the text.            *)
WhereColumnsOf(text) == LET idx == SelectSeq([i \in 1..(Len(text) - 1) |-> i], LAMBDA i : i > WherePos(text) /\ text[i + 1] = "=") IN [j \in DOMAIN idx |-> text[idx[j]]]

(* ------------------------------- C1 ------------------------------------ *)
(* C1: when update_rows_in_database runs on rows r1..rn and row k is the   *)
(* first whose update does not succeed, it returns False, the updates of   *)
(* rows 1..k-1 are committed, and no update is attempted after row k.      *)
C1_FailFast ==
  (UpdateRowsRuns /\ \E k \in DOMAIN call.new_df.rows : ~RowSucceeds(k)) =>
     /\ ret = Return("False")
     /\ Len(committed) = FirstFailing - 1
     /\ Len(Executes) = FirstFailing

(* ------------------------------- C2 ------------------------------------ *)
(* C2: on a non-empty dataset of n rows whose statements the database      *)
(* accepts, update_rows_in_database executes and commits n updates, one    *)
(* per row in order, each in its own transaction, and returns True.        *)
C2_AllRowsUpdated ==
  (UpdateRowsRuns /\ \A k \in DOMAIN call.new_df.rows : RowSucceeds(k)) =>
     /\ ret = Return("True")
     /\ Len(Executes) = Len(call.new_df.rows)
     /\ Len(committed) = Len(call.new_df.rows)
     /\ Cardinality({i \in Events("commit") : log[i].ok}) = Len(call.new_df.rows)
     /\ \A k \in DOMAIN Executes : Executes[k].ok /\ Executes[k].params = PyTuple(<<call.new_df.rows[k][IndexOf(call.new_df.columns, call.filter_col)]>>)

(* ------------------------------- C3 ------------------------------------ *)
InsertAttemptsEveryRow ==
  /\ Len(Executes) = Len(call.data_df.rows)
  /\ \A k \in DOMAIN Executes : Executes[k].params = PyTuple(call.data_df.rows[k]) /\ Executes[k].text = Executes[1].text

OneCommitAfterLastRow ==
  /\ Cardinality(Events("commit")) = 1
  /\ \A i \in Events("commit") : \A j \in Events("execute") : j < i

C4_EmptyGuard ==
  (Done("update_rows_in_database") /\ (Len(call.new_df.rows) = 0 \/ Len(call.new_df.columns) = 0)) =>
     (ret = Return("False") /\ log = <<>> /\ committed = <<>> /\ conn = call.conn0)

C4_Witness ==
  /\ Done("update_rows_in_database") /\ Len(call.new_df.rows) = 0 /\ Len(call.new_df.columns) > 0
  /\ call.conn0 = "open" /\ conn = "open" /\ ret = Return("False")

(* ------------------------------- C5 ------------------------------------ *)
IOOps == {"get_all_data_from_table", "get_table_columns", "get_all_with_filter", "get_all_with_multiple_filters", "update_multiple_columns_by_multi_filter", "insert_into_table"}

FailureValues == {"None", "False"}

(* C5: when cursor creation or statement execution fails in an I/O-facing  *)
(* operation, the operation rolls back, releases its cursor and returns a  *)
(* Failure value; no exception escapes.                                    *)
C5_ErrorsBecomeFailures ==
  (pc = "done" /\ call.op \in IOOps /\ \E i \in DOMAIN log : log[i].ev \in {"cursor", "execute"} /\ ~log[i].ok) =>
     /\ ret.kind = "return"
     /\ ret.value \in FailureValues
     /\ Events("rollback") # {}
     /\ (\E i \in Events("cursor") : log[i].ok) => Events("cursor_close") # {}

(* ------------------------------- C6 ------------------------------------ *)
ClosingOps == {"get_all_with_filter", "get_all_with_multiple_filters", "update_multiple_columns_by_multi_filter"}

NonClosingOps == {"get_all_data_from_table", "insert_into_table", "get_table_columns"}

(* C6: the filtered reads and the update leave the connection closed on    *)
(* every exit path; get_all_data_from_table, insert_into_table and         *)
(* get_table_columns never close the connection they are given.            *)
C6_ConnectionSideEffect ==
  /\ (pc = "done" /\ call.op \in ClosingOps) => conn = "closed"
  /\ (pc = "done" /\ call.op \in NonClosingOps) => (conn = call.conn0 /\ Events("conn_close") = {})

C6_Witness ==
  /\ Done("get_all_with_filter") /\ call.conn0 = "open" /\ call.resp = "empty"
  /\ ret = Return("EmptyDataFrame") /\ conn = "closed"

(* ------------------------------- C7 ------------------------------------ *)
EntryCount(obj) == IF obj.t \in {"tuple", "list"} THEN Len(obj.v) ELSE 1

CountsMismatch ==
  \/ Done("get_all_with_multiple_filters") /\ call.conn0 = "open" /\ Len(call.column_filters) # EntryCount(call.filter_values)
  \/ Done("update_multiple_columns_by_multi_filter") /\ call.conn0 = "open" /\ (Len(call.column_filters) # EntryCount(call.filter_values) \/ Len(call.update_columns) # Len(call.update_values))

(* C7: a call on a live connection whose column and value counts differ   *)
(* is rejected before any I/O: no cursor is opened, no statement executed, *)
(* and the call does not report a result.                                  *)
C7_MismatchFailsBeforeIO ==
  CountsMismatch =>
     /\ Events("cursor") = {} /\ Events("execute") = {}
     /\ ~(ret.kind = "return" /\ ret.value \in {"1", "DataFrame", "EmptyDataFrame"})

(* ------------------------------- C8 ------------------------------------ *)
(* C8: every statement passed to execute with a sequence of parameters has *)
(* as many placeholders in its text as parameters bound to it.             *)
C8_PlaceholdersMatchParams ==
  \A i \in Events("execute") : IsSequenceObj(log[i].params) => CountPlaceholders(log[i].text) = ParamCount(log[i].params)

(* ------------------------------- C9 ------------------------------------ *)
FilterIsRowKey(k) ==
  /\ WhereColumnsOf(Executes[k].text) = <<call.filter_col>>
  /\ Executes[k].params = PyTuple(<<call.new_df.rows[k][IndexOf(call.new_df.columns, call.filter_col)]>>)

(* C9 as stated: each update issued by update_rows_in_database filters on  *)
(* (filter_col, the row's value) and its SET clause never names the        *)
(* filter column.                                                          *)
C9_FilterColumnNotSet ==
  Done("update_rows_in_database") => \A k \in DOMAIN Executes : FilterIsRowKey(k) /\ call.filter_col \notin Range(SetColumnsOf(Executes[k].text))

(* C9, amended: each update issued by update_rows_in_database filters on   *)
(* (filter_col, the row's value) and its SET clause assigns every column   *)
(* of the dataset, the filter column included, in the dataset's order.     *)
C9_AllColumnsSet ==
  Done("update_rows_in_database") => \A k \in DOMAIN Executes : FilterIsRowKey(k) /\ SetColumnsOf(Executes[k].text) = call.new_df.columns

C9_Witness ==
  /\ Done("update_rows_in_database") /\ Len(call.new_df.columns) = 2 /\ Len(Executes) > 0
  /\ Executes[1].ok /\ call.filter_col \in Range(SetColumnsOf(Executes[1].text))

(* ------------------------------- C10 ----------------------------------- *)
(* C10: update_multiple_columns_by_multi_filter and insert_into_table      *)
(* return 1 whenever they return, committed or rolled back; so             *)
(* update_rows_in_database on a non-empty dataset never returns False:     *)
(* whatever it returns is True.                                            *)
C10_AlwaysOne ==
  /\ (pc = "done" /\ call.op \in {"update_multiple_columns_by_multi_filter", "insert_into_table"} /\ ret.kind = "return") => ret.value = "1"
  /\ (Done("update_rows_in_database") /\ Len(call.new_df.rows) > 0 /\ Len(call.new_df.columns) > 0 /\ ret.kind = "return") => ret.value = "True"

C10_Witness ==
  /\ Done("update_rows_in_database") /\ Len(call.new_df.rows) > 0
  /\ Events("rollback") # {} /\ Events("commit") = {}
  /\ ret = Return("True")

====
